---- MODULE Spec2Model ----
(***************************************************************************)
(* EDC Studio backend: the connector registry and runtime provisioner      *)
(* (app/services/connectors_service.py, app/services/                      *)
(* edc_launcher_service.py) and the negotiation / transfer orchestrator    *)
(* (app/services/transfers_service.py, app/routes/transfers_routes.py).    *)
(*                                                                         *)
(* Every request handler is one action.  What the handler cannot decide    *)
(* itself (whether keytool, the container engine, the relational server or *)
(* an upstream connector answers) is an input of the action, drawn from a  *)
(* small set.  `last` holds what the caller of the last request saw.       *)
(***************************************************************************)
EXTENDS Integers, FiniteSets, Sequences, TLC

VARIABLES
    connectors,     \* db["connectors"]: ObjectId -> document
    nextId,         \* the next ObjectId insert_one hands out
    runtime,        \* runtime/<id> directories: id -> files present in it
    containers,     \* names of the live containers (docker ps)
    networkExists,  \* the overlay network NETWORK_NAME exists
    databases,      \* names in pg_database
    transfers,      \* db["transfers"]
    upstream,       \* what the consumer's connector runtime would answer
    last,           \* outcome of the last request, as its caller sees it
    starts,         \* start requests under way, step by step: id -> position
    stops,          \* stop requests under way, step by step: id -> position
    listing,        \* the GET /connectors under way: position, snapshot, listing
    creates,        \* POST /connectors bodies past check_ports_unique, not yet inserted
    tables          \* database name -> statements of init.sql committed in it

vars == <<connectors, nextId, runtime, containers, networkExists, databases,
          transfers, upstream, last, starts, stops, listing, creates, tables>>

----------------------------------------------------------------------------
(* Bounds *)

\* ObjectIds are 1..MaxConnectors: the documents the registry comes to hold
\* under SpecRegistry and SpecTransfers, and the ids a request may name
MaxConnectors == 2
\* instances registered under Spec, where each brings a runtime directory, a
\* container and a database with it
MaxInstances == 1
\* port sets offered to create/update start at 1, 7, ... (MaxBase + 1 blocks)
MaxBase == 1
\* and assign the block's six ports to the six fields rotated by 0..MaxRot
MaxRot == 1

Ids == 1..MaxConnectors

Types == {"provider", "consumer"}
Modes == {"managed", "remote"}
States == {"running", "stopped"}

\* Optional[...] = None
None == [f \in {} |-> 0]

\* the six fields of PortConfig, in the order check_ports_unique lists them
PortFields == <<"http", "management", "protocol", "control", "public", "version">>

PortFieldSet == {PortFields[k] : k \in 1..Len(PortFields)}

FieldIndex(f) == CHOOSE k \in 1..Len(PortFields) : PortFields[k] = f

\* a PortConfig: block `base`, fields rotated by `rot`
PortConfig(base, rot) ==
    [f \in PortFieldSet |->
        base * Len(PortFields) + ((FieldIndex(f) - 1 + rot) % Len(PortFields)) + 1]

PortConfigs == {PortConfig(b, r) : b \in 0..MaxBase, r \in 0..MaxRot}

AllPorts == 1..((MaxBase + 1) * Len(PortFields))

\* the port values of a document's `ports` (none when it is None)
PortValues(ports) == {ports[f] : f \in DOMAIN ports}

\* the files _generate_files writes under runtime/<id>
Artifacts == {"config", "cert", "compose", "proxy"}

\* container_name: edc-{type}-{id}; database: edc_{type}_{id}
ContainerName(type, id) == <<type, id>>

DbName(type, id) == <<type, id>>

\* counterPartyAddress of a request that was not built
NoAddress == [kind |-> "none"]

\* op, id: the request; err, status, body: the exception and the response the
\* caller got; seen, failedAt, dbLog: what a provisioner request read and
\* logged; calls, answered, address: the outbound calls a client request made,
\* the status the upstream answered, the counterPartyAddress it sent
NoLast ==
    [op |-> "none", id |-> 0, err |-> "ok", status |-> 200, seen |-> "none",
     failedAt |-> "none", dbLog |-> "none", body |-> <<>>, calls |-> 0,
     answered |-> 0, address |-> NoAddress]

\* the consumer's connector runtime before any negotiation
\* no GET /connectors under way
NoListing == [pc |-> "idle", docs |-> <<>>, active |-> {}]

UpstreamInit ==
    [negotiation |-> "none", transfer |-> "none", flow |-> "none", address |-> FALSE]

Outcome(op, id, err, status) ==
    [NoLast EXCEPT !.op = op, !.id = id, !.err = err, !.status = status]

----------------------------------------------------------------------------
(* The connector registry: create, update, read, delete *)

\* what a caller may POST: a Connector document (app/models/connector.py)
Document(type, mode, state, ports, endpoints_url, api_key) ==
    [type |-> type, mode |-> mode, state |-> state, ports |-> ports,
     endpoints_url |-> endpoints_url, api_key |-> api_key]

\* is_port_in_use: connect_ex(('127.0.0.1', port)) == 0; `listening` is the set
\* of ports accepting TCP connections on the host when the call is made
is_port_in_use(port, listening) == port \in listening

\* the $or query of check_ports_unique: one clause per field, each comparing
\* the stored document's field with the candidate's value of that same field
PortQueryMatches(doc, ports) ==
    /\ doc.ports # None
    /\ \E f \in PortFieldSet : doc.ports[f] = ports[f]

\* check_ports_unique: "ok", or the HTTPException(400) it raises
check_ports_unique(connector, docs, listening) ==
    IF connector.ports = None
    THEN "ok"
    ELSE IF \E i \in DOMAIN docs : PortQueryMatches(docs[i], connector.ports)
    THEN "PortsAlreadyInUse"
    ELSE IF \E p \in PortValues(connector.ports) : is_port_in_use(p, listening)
    THEN "PortInUseOnHost"
    ELSE "ok"

\* POST /connectors
create_connector(connector, listening) ==
    /\ LET err == check_ports_unique(connector, connectors, listening) IN
       IF err = "ok"
       THEN /\ connectors' = [i \in DOMAIN connectors \cup {nextId} |->
                                 IF i = nextId THEN connector ELSE connectors[i]]
            /\ nextId' = nextId + 1
            /\ last' = Outcome("create", nextId, "ok", 201)
       ELSE /\ UNCHANGED <<connectors, nextId>>
            /\ last' = Outcome("create", 0, err, 400)
    /\ UNCHANGED <<runtime, containers, networkExists, databases, transfers, upstream,
                   starts, stops, listing, creates, tables>>

\* {"$set": update_data}: the fields of update_data overwrite the document's
SetFields(doc, update_data) ==
    [f \in DOMAIN doc |-> IF f \in DOMAIN update_data THEN update_data[f] ELSE doc[f]]

\* update_connector: update_one, ValueError when nothing matched
UpdateStore(docs, id, update_data) ==
    IF id \in DOMAIN docs
    THEN [docs EXCEPT ![id] = SetFields(docs[id], update_data)]
    ELSE docs

\* PUT /connectors/{id} with data.dict(exclude_unset=True)
update_connector(id, update_data) ==
    /\ connectors' = UpdateStore(connectors, id, update_data)
    /\ last' = IF id \in DOMAIN connectors
               THEN Outcome("update", id, "ok", 200)
               ELSE Outcome("update", id, "ValueError", 404)
    /\ UNCHANGED <<nextId, starts, stops, listing, creates, tables, runtime,
                   containers, networkExists, databases, transfers, upstream>>

\* a function without the key k
Without(f, k) == [x \in DOMAIN f \ {k} |-> f[x]]

\* mutant: a delete that takes the transfers naming the connector with it
delete_connector_Cascade(id, dbOk) ==
    /\ IF id \notin DOMAIN runtime
       THEN /\ UNCHANGED <<connectors, runtime, transfers>>
            /\ last' = Outcome("delete", id, "ValueError", 404)
       ELSE /\ runtime' = Without(runtime, id)
            /\ IF ~dbOk
               THEN /\ UNCHANGED <<connectors, transfers>>
                    /\ last' = Outcome("delete", id, "PyMongoError", 500)
               ELSE IF id \in DOMAIN connectors
               THEN /\ connectors' = Without(connectors, id)
                    /\ transfers' = SelectSeq(transfers,
                                              LAMBDA t : t.consumer # id /\ t.provider # id)
                    /\ last' = Outcome("delete", id, "ok", 200)
               ELSE /\ UNCHANGED <<connectors, transfers>>
                    /\ last' = Outcome("delete", id, "ValueError", 404)
    /\ UNCHANGED <<nextId, starts, stops, listing, creates, tables, containers,
                   networkExists, databases, upstream>>

\* mutant: the base_path.exists() test dropped (rmtree ignoring a missing
\* directory)
delete_connector_NoDirTest(id, dbOk) ==
    /\ runtime' = Without(runtime, id)
    /\ IF ~dbOk
       THEN /\ UNCHANGED connectors
            /\ last' = Outcome("delete", id, "PyMongoError", 500)
       ELSE IF id \in DOMAIN connectors
       THEN /\ connectors' = Without(connectors, id)
            /\ last' = Outcome("delete", id, "ok", 200)
       ELSE /\ UNCHANGED connectors
            /\ last' = Outcome("delete", id, "ValueError", 404)
    /\ UNCHANGED <<nextId, starts, stops, listing, creates, tables, containers,
                   networkExists, databases, transfers, upstream>>

\* mutant: a delete that runs `docker compose down` before the rmtree
delete_connector_Teardown(id, dbOk) ==
    /\ IF id \notin DOMAIN runtime
       THEN /\ UNCHANGED <<connectors, runtime, containers>>
            /\ last' = Outcome("delete", id, "ValueError", 404)
       ELSE /\ runtime' = Without(runtime, id)
            /\ containers' = {c \in containers : c[2] # id}
            /\ IF ~dbOk
               THEN /\ UNCHANGED connectors
                    /\ last' = Outcome("delete", id, "PyMongoError", 500)
               ELSE IF id \in DOMAIN connectors
               THEN /\ connectors' = Without(connectors, id)
                    /\ last' = Outcome("delete", id, "ok", 200)
               ELSE /\ UNCHANGED connectors
                    /\ last' = Outcome("delete", id, "ValueError", 404)
    /\ UNCHANGED <<nextId, starts, stops, listing, creates, tables, networkExists,
                   databases, transfers, upstream>>

\* DELETE /connectors/{id}: the directory check, rmtree, then delete_one.
\* delete_one is the one store call made after an effect that is not undone:
\* dbOk tells whether the record store answers it
delete_connector(id, dbOk) ==
    /\ IF id \notin DOMAIN runtime
       THEN /\ UNCHANGED <<connectors, runtime>>
            /\ last' = Outcome("delete", id, "ValueError", 404)
       ELSE /\ runtime' = Without(runtime, id)
            /\ IF ~dbOk
               THEN /\ UNCHANGED connectors
                    /\ last' = Outcome("delete", id, "PyMongoError", 500)
               ELSE IF id \in DOMAIN connectors
               THEN /\ connectors' = Without(connectors, id)
                    /\ last' = Outcome("delete", id, "ok", 200)
               ELSE /\ UNCHANGED connectors
                    /\ last' = Outcome("delete", id, "ValueError", 404)
    /\ UNCHANGED <<nextId, starts, stops, listing, creates, tables, containers,
                   networkExists, databases, transfers, upstream>>

----------------------------------------------------------------------------
(* The runtime provisioner: artifact generation, network, database, launch *)

\* what start cannot decide itself: does keytool succeed, does the container
\* engine answer, does the relational server accept a connection within the
\* timeout, is config/init.sql there, does `docker compose up -d` exit 0
\* The steps consult these in this order, each at most once, and start stops at
\* the first failure: which external fails first (if any) decides the run.
StartEnvFlags == {"keytool", "docker", "pg", "initsql", "compose"}

\* timeout=30 of _wait_for_postgres, in seconds
PgTimeout == 30

\* the relational server accepts connections from second 0, from second
\* MaxPgDelay of the wait, or not before the timeout
MaxPgDelay == 2

\* init.sql holds the statements 1..MaxStatements, in this order
MaxStatements == 3

Statements == 1..MaxStatements

\* _wait_for_postgres, the clock in whole seconds: one connection attempt per
\* turn of the loop, time.sleep(1) after a refused one.  upAt is the second
\* from which the server accepts connections.
RECURSIVE _wait_for_postgres(_, _)

\* mutant: the loop left at the timeout without raise TimeoutError
_wait_for_postgres_NoRaise(elapsed, upAt) ==
    [ok |-> TRUE, waited |-> IF upAt < PgTimeout THEN upAt ELSE PgTimeout]

_wait_for_postgres(elapsed, upAt) ==
    IF elapsed >= PgTimeout
    THEN [ok |-> FALSE, waited |-> elapsed]
    ELSE IF elapsed >= upAt
    THEN [ok |-> TRUE, waited |-> elapsed]
    ELSE _wait_for_postgres(elapsed + 1, upAt)

\* one run's externals: `bad` is the one that fails (if any), pgUpAt the
\* second from which the server accepts connections, sqlFails the statement
\* of init.sql the server rejects (0: none)
StartEnv(bad, upAt, fails) ==
    [keytool |-> bad # "keytool", docker |-> bad # "docker",
     pg |-> _wait_for_postgres(0, upAt).ok, pgUpAt |-> upAt,
     initsql |-> bad # "initsql", compose |-> bad # "compose", sqlFails |-> fails]

StartEnvs ==
    {StartEnv(bad, IF bad = "pg" THEN PgTimeout ELSE 0, 0) :
        bad \in StartEnvFlags \cup {"none"}}
    \cup {StartEnv("none", MaxPgDelay, 0)}

\* _generate_files on the directory runtime/<id>.  dir: the directory exists
\* afterwards; files: what it holds; ok: no exception.
\*   provider with ports None: ports['public'] raises before any mkdir;
\*   consumer with ports None: the folders are made, CONFIG_TEMPLATE.format
\*     (**ports) raises;
\*   keytool failing: config.properties is written, an old cert.pfx unlinked,
\*     RuntimeError raised before docker-compose.yml and edc-proxy.conf.
_generate_files(connector, hadDir, oldFiles, keytoolOk) ==
    IF connector.ports = None /\ connector.type = "provider"
    THEN [ok |-> FALSE, dir |-> hadDir, files |-> oldFiles]
    ELSE IF connector.ports = None
    THEN [ok |-> FALSE, dir |-> TRUE, files |-> oldFiles]
    ELSE IF ~keytoolOk
    THEN [ok |-> FALSE, dir |-> TRUE, files |-> (oldFiles \cup {"config"}) \ {"cert"}]
    ELSE [ok |-> TRUE, dir |-> TRUE, files |-> Artifacts]

\* mutant: `docker network create` run without check=True
_create_docker_network_unchecked(exists, dockerOk) ==
    LET listed == dockerOk /\ exists IN
    IF listed
    THEN [ok |-> TRUE, exists |-> exists, created |-> FALSE]
    ELSE IF dockerOk
    THEN [ok |-> TRUE, exists |-> TRUE, created |-> TRUE]
    ELSE [ok |-> TRUE, exists |-> exists, created |-> FALSE]

\* _create_docker_network_if_not_exists: `docker network ls` (exit status not
\* checked; with the engine down the listing is empty), then `docker network
\* create` with check=True when the name is not in the listing
_create_docker_network_if_not_exists(exists, dockerOk) ==
    LET listed == dockerOk /\ exists IN
    IF listed
    THEN [ok |-> TRUE, exists |-> exists, created |-> FALSE]
    ELSE IF dockerOk
    THEN [ok |-> TRUE, exists |-> TRUE, created |-> TRUE]
    ELSE [ok |-> FALSE, exists |-> exists, created |-> FALSE]

\* the relational server's CREATE DATABASE: an error when the name is taken
PgCreateDatabase(dbs, name) ==
    IF name \in dbs
    THEN [ok |-> FALSE, dbs |-> dbs, log |-> "DuplicateDatabase"]
    ELSE [ok |-> TRUE, dbs |-> dbs \cup {name}, log |-> "created"]

\* mutant: CREATE DATABASE issued without the existence test
CreateDatabase_Unchecked(dbs, name) == PgCreateDatabase(dbs, name)

\* step 3 of _run_docker_compose: SELECT 1 FROM pg_database, CREATE only if
\* no row came back
CreateDatabaseIfAbsent(dbs, name) ==
    IF name \in dbs
    THEN [ok |-> TRUE, dbs |-> dbs, log |-> "exists"]
    ELSE PgCreateDatabase(dbs, name)

\* `docker compose up -d` in runtime/<id>: the container named in the
\* descriptor runs afterwards
ComposeUp(live, name) == live \cup {name}

\* the for loop over sqlparse.split(script): every statement is sent on the
\* one connection opened without autocommit, so all of them run in one
\* transaction.  The server rejects statement `fails`; from then on the
\* transaction is aborted and the server rejects every later statement too
\* (InFailedSqlTransaction).  Each exception is caught and printed.
RECURSIVE ExecuteStatements(_, _, _, _)

ExecuteStatements(n, fails, applied, aborted) ==
    IF n > MaxStatements
    THEN [applied |-> applied, aborted |-> aborted]
    ELSE IF aborted \/ n = fails
    THEN ExecuteStatements(n + 1, fails, applied, TRUE)
    ELSE ExecuteStatements(n + 1, fails, applied \cup {n}, FALSE)

\* step 4 of _run_docker_compose on the database db_name: the loop, then
\* conn.commit(), which the server answers with a rollback when the
\* transaction is aborted.  The result is what the database holds afterwards.
RunInitSql(tabs, db_name, fails) ==
    LET before == IF db_name \in DOMAIN tabs THEN tabs[db_name] ELSE {}
        run == ExecuteStatements(1, fails, {}, FALSE)
    IN  [d \in DOMAIN tabs \cup {db_name} |->
            IF d # db_name THEN tabs[d]
            ELSE IF run.aborted THEN before
            ELSE before \cup run.applied]

\* _run_docker_compose: wait for the server, create the database if absent,
\* run init.sql, launch the stack
_run_docker_compose(container, db_name, dbs, live, env) ==
    IF ~_wait_for_postgres(0, env.pgUpAt).ok
    THEN [failedAt |-> "database", dbs |-> dbs, live |-> live, log |-> "TimeoutError",
          tables |-> tables]
    ELSE LET made == CreateDatabaseIfAbsent(dbs, db_name)
             tabs == RunInitSql(tables, db_name, env.sqlFails) IN
         IF ~made.ok
         THEN [failedAt |-> "database", dbs |-> made.dbs, live |-> live, log |-> made.log,
               tables |-> tables]
         ELSE IF ~env.initsql
         THEN [failedAt |-> "database", dbs |-> made.dbs, live |-> live,
               log |-> "FileNotFoundError", tables |-> tables]
         ELSE IF ~env.compose
         THEN [failedAt |-> "compose", dbs |-> made.dbs, live |-> live, log |-> made.log,
               tables |-> tabs]
         ELSE [failedAt |-> "none", dbs |-> made.dbs, live |-> ComposeUp(live, container),
               log |-> made.log, tables |-> tabs]

\* mutant: the database and launch steps run whatever the network step did
StartSteps_NoAbort(connector, id, env) ==
    LET gen == _generate_files(connector, id \in DOMAIN runtime,
                               IF id \in DOMAIN runtime THEN runtime[id] ELSE {},
                               env.keytool)
        net == _create_docker_network_if_not_exists(networkExists, env.docker)
        run == _run_docker_compose(ContainerName(connector.type, id),
                                   DbName(connector.type, id), databases,
                                   containers, env)
    IN  IF ~gen.ok
        THEN [failedAt |-> "generate", gen |-> gen, net |-> networkExists,
              dbs |-> databases, live |-> containers, log |-> "none",
              tables |-> tables]
        ELSE [failedAt |-> run.failedAt, gen |-> gen, net |-> net.exists,
              dbs |-> run.dbs, live |-> run.live, log |-> run.log,
              tables |-> run.tables]

\* the sub-steps of start_edc_service's try block, in order; failedAt names
\* the first one that raised
StartSteps(connector, id, env) ==
    LET gen == _generate_files(connector, id \in DOMAIN runtime,
                               IF id \in DOMAIN runtime THEN runtime[id] ELSE {},
                               env.keytool)
        net == _create_docker_network_if_not_exists(networkExists, env.docker)
        run == _run_docker_compose(ContainerName(connector.type, id),
                                   DbName(connector.type, id), databases,
                                   containers, env)
    IN  IF ~gen.ok
        THEN [failedAt |-> "generate", gen |-> gen, net |-> networkExists,
              dbs |-> databases, live |-> containers, log |-> "none",
              tables |-> tables]
        ELSE IF ~net.ok
        THEN [failedAt |-> "network", gen |-> gen, net |-> net.exists,
              dbs |-> databases, live |-> containers, log |-> "none",
              tables |-> tables]
        ELSE [failedAt |-> run.failedAt, gen |-> gen, net |-> net.exists,
              dbs |-> run.dbs, live |-> run.live, log |-> run.log,
              tables |-> run.tables]

\* mutant: `running` persisted whether or not the steps went through
StateAfterStart_Unconditional(doc, failedAt) == [doc EXCEPT !.state = "running"]

\* the state start_edc_service persists once the steps are through
StateAfterStart(doc, failedAt) ==
    IF failedAt = "none" THEN [doc EXCEPT !.state = "running"] ELSE doc

\* POST /connectors/{id}/start
start_edc_service(id, env) ==
    IF id \notin DOMAIN connectors
    THEN /\ last' = Outcome("start", id, "ValueError", 404)
         /\ UNCHANGED <<connectors, nextId, starts, stops, listing, creates, tables,
                        runtime, containers, networkExists, databases, transfers,
                        upstream>>
    ELSE LET r == StartSteps(connectors[id], id, env) IN
         /\ runtime' = IF r.gen.dir
                       THEN [i \in DOMAIN runtime \cup {id} |->
                                IF i = id THEN r.gen.files ELSE runtime[i]]
                       ELSE runtime
         /\ networkExists' = r.net
         /\ databases' = r.dbs
         /\ tables' = r.tables
         /\ containers' = r.live
         /\ connectors' = [connectors EXCEPT ![id] = StateAfterStart(@, r.failedAt)]
         /\ last' = [Outcome("start", id,
                             IF r.failedAt = "none" THEN "ok" ELSE "RuntimeError",
                             IF r.failedAt = "none" THEN 200 ELSE 500)
                       EXCEPT !.seen = connectors[id].state,
                              !.failedAt = r.failedAt, !.dbLog = r.log]
         /\ UNCHANGED <<nextId, starts, stops, listing, creates, transfers, upstream>>

\* how `docker compose down` in runtime/<id> can end: exit 0, a non-zero exit
\* (subprocess.run without check=True returns), or the docker executable
\* missing (subprocess.run raises)
DownOutcomes == {"ok", "nonzero", "nodocker"}

\* _run_docker_compose_down: the stack of runtime/<id> is torn down when the
\* descriptor is there and the command exits 0
_run_docker_compose_down(files, live, id, down) ==
    [raised |-> down = "nodocker",
     live |-> IF down = "ok" /\ "compose" \in files
              THEN {c \in live : c[2] # id}
              ELSE live]

\* the state stop_edc_service persists after the teardown call returned
StateAfterStop(doc, raised) ==
    IF raised THEN doc ELSE [doc EXCEPT !.state = "stopped"]

\* mutant: the base_path.exists() test dropped
stop_edc_service_Unchecked(id, down) ==
    LET files == IF id \in DOMAIN runtime THEN runtime[id] ELSE {}
        r == _run_docker_compose_down(files, containers, id, down) IN
    /\ containers' = r.live
    /\ connectors' = [i \in DOMAIN connectors |->
                         IF i = id THEN StateAfterStop(connectors[i], r.raised)
                         ELSE connectors[i]]
    /\ last' = IF r.raised
               THEN Outcome("stop", id, "RuntimeError", 500)
               ELSE Outcome("stop", id, "ok", 200)
    /\ UNCHANGED <<nextId, starts, stops, listing, creates, tables, runtime,
                   networkExists, databases, transfers, upstream>>

\* POST /connectors/{id}/stop
stop_edc_service(id, down) ==
    IF id \notin DOMAIN runtime
    THEN /\ last' = Outcome("stop", id, "ValueError", 404)
         /\ UNCHANGED <<connectors, nextId, starts, stops, listing, creates, tables,
                        runtime, containers, networkExists, databases, transfers,
                        upstream>>
    ELSE LET r == _run_docker_compose_down(runtime[id], containers, id, down) IN
         /\ containers' = r.live
         /\ connectors' = [i \in DOMAIN connectors |->
                              IF i = id THEN StateAfterStop(connectors[i], r.raised)
                              ELSE connectors[i]]
         /\ last' = IF r.raised
                    THEN Outcome("stop", id, "RuntimeError", 500)
                    ELSE Outcome("stop", id, "ok", 200)
         /\ UNCHANGED <<nextId, starts, stops, listing, creates, tables, runtime,
                        networkExists, databases, transfers, upstream>>

\* mutant: the listing taken as if `docker ps` had answered
ActiveContainers_Answered(live, psOk) == live

\* the listing of `docker ps --format {{.Names}}`; empty when the call raises
ActiveContainers(live, psOk) == IF psOk THEN live ELSE {}

\* mutant: the mode test dropped, remote instances reconciled too
Reconcile_AnyMode(doc, id, active_containers) ==
    [doc EXCEPT !.state = IF ContainerName(doc.type, id) \notin active_containers
                          THEN "stopped" ELSE "running"]

\* the loop body of get_all_connectors for one document
Reconcile(doc, id, active_containers) ==
    IF doc.mode = "managed"
    THEN [doc EXCEPT !.state = IF ContainerName(doc.type, id) \notin active_containers
                               THEN "stopped" ELSE "running"]
    ELSE doc

\* GET /connectors
get_all_connectors(psOk) ==
    /\ connectors' = [i \in DOMAIN connectors |->
                         Reconcile(connectors[i], i, ActiveContainers(containers, psOk))]
    /\ last' = [Outcome("list", 0, "ok", 200)
                  EXCEPT !.seen = IF psOk THEN "docker" ELSE "nodocker"]
    /\ UNCHANGED <<nextId, starts, stops, listing, creates, tables, runtime,
                   containers, networkExists, databases, transfers, upstream>>

\* a container exits on its own, outside any request
ContainerExits(name) ==
    /\ name \in containers
    /\ containers' = containers \ {name}
    /\ UNCHANGED <<connectors, nextId, starts, stops, listing, creates, tables,
                   runtime, networkExists, databases, transfers, upstream, last>>

----------------------------------------------------------------------------
(* The specification of the registry and the provisioner *)

\* the documents offered to POST /connectors: every role, mode and state, with
\* no port set or with the port block no earlier document was offered (the
\* port check itself is exercised under SpecRegistry)
Candidates ==
    {Document(t, m, st, p, None, "secret") :
        t \in Types, m \in Modes, st \in States,
        p \in {PortConfig(nextId - 1, 0), None}}

\* the bodies offered to PUT /connectors/{id}: one field set
Updates ==
    {[state |-> st] : st \in States} \cup {[mode |-> m] : m \in Modes}

Init ==
    /\ connectors = <<>>
    /\ nextId = 1
    /\ runtime = <<>>
    /\ containers = {}
    /\ networkExists = FALSE
    /\ databases = {}
    /\ transfers = <<>>
    /\ upstream = UpstreamInit
    /\ last = NoLast
    /\ starts = <<>>
    /\ stops = <<>>
    /\ listing = NoListing
    /\ creates = {}
    /\ tables = <<>>

Next ==
    \/ nextId <= MaxInstances /\ \E c \in Candidates : create_connector(c, {})
    \/ \E i \in Ids, u \in Updates : update_connector(i, u)
    \/ \E i \in Ids, dbOk \in BOOLEAN : delete_connector(i, dbOk)
    \/ \E i \in Ids, env \in StartEnvs : start_edc_service(i, env)
    \/ \E i \in Ids, down \in DownOutcomes : stop_edc_service(i, down)
    \/ \E psOk \in BOOLEAN : get_all_connectors(psOk)
    \/ \E name \in containers : ContainerExits(name)

Spec == Init /\ [][Next]_vars

----------------------------------------------------------------------------
(* The registry alone, over every port set: create, update, delete *)

\* at most MaxListening ports of the host accept connections at one call
MaxListening == 1

Listenings == {l \in SUBSET AllPorts : Cardinality(l) <= MaxListening}

RegistryCandidates ==
    {Document(t, m, "stopped", p, None, "secret") :
        t \in Types, m \in Modes, p \in PortConfigs \cup {None}}

\* PUT bodies with a `ports` field
RegistryUpdates == {[ports |-> p] : p \in PortConfigs \cup {None}}

NextRegistry ==
    \/ /\ nextId <= MaxConnectors
       /\ \E c \in RegistryCandidates, l \in Listenings : create_connector(c, l)
    \/ \E i \in Ids, u \in RegistryUpdates : update_connector(i, u)
    \/ \E i \in Ids, dbOk \in BOOLEAN : delete_connector(i, dbOk)

SpecRegistry == Init /\ [][NextRegistry]_vars

----------------------------------------------------------------------------
(* Claims about the provisioner *)

\* C1: a start that found the instance registered with state `stopped` leaves
\* it `running` when every sub-step succeeded, and otherwise raises and leaves
\* it `stopped`.
C1_StartFromStopped ==
    (last.op = "start" /\ last.seen = "stopped") =>
        IF last.failedAt = "none"
        THEN last.err = "ok" /\ connectors[last.id].state = "running"
        ELSE last.err = "RuntimeError" /\ connectors[last.id].state = "stopped"

C1_Witness ==
    /\ last.op = "start" /\ last.seen = "stopped" /\ last.failedAt = "none"
    /\ connectors[last.id].state = "running"
    /\ ContainerName(connectors[last.id].type, last.id) \in containers

\* C2: a reconciliation pass whose container listing succeeded leaves every
\* managed instance `running` exactly when its container edc-{type}-{id} is
\* live, and leaves every remote instance's document as it was.
C2_Reconciliation ==
    [][get_all_connectors(TRUE) =>
        \A i \in DOMAIN connectors :
            /\ i \in DOMAIN connectors'
            /\ IF connectors[i].mode = "managed"
               THEN connectors'[i].state = "running"
                        <=> ContainerName(connectors[i].type, i) \in containers
               ELSE connectors'[i] = connectors[i]]_vars

C2_Witness ==
    /\ last.op = "list" /\ last.seen = "docker"
    /\ \E i \in DOMAIN connectors :
        /\ connectors[i].mode = "managed" /\ connectors[i].state = "stopped"
        /\ i \in DOMAIN runtime /\ "compose" \in runtime[i]
        /\ ContainerName(connectors[i].type, i) \notin containers

\* C3: stop on an instance without a runtime directory fails with the
\* not-provisioned error (ValueError, 404) and changes nothing.
C3_StopNotProvisioned ==
    [][\A i \in Ids, down \in DownOutcomes :
        (stop_edc_service(i, down) /\ i \notin DOMAIN runtime) =>
            /\ last'.err = "ValueError" /\ last'.status = 404
            /\ UNCHANGED <<connectors, nextId, starts, stops, listing, creates, tables,
                           runtime, containers, networkExists, databases, transfers,
                           upstream>>]_vars

C3_Witness ==
    /\ last.op = "stop" /\ last.err = "ValueError"
    /\ last.id \in DOMAIN connectors /\ last.id \notin DOMAIN runtime
    /\ connectors[last.id].state = "running"

\* C6: database provisioning run for a name that is already in pg_database
\* finds it, attempts no CREATE, raises nothing, and leaves the one database.
C6_DatabaseIdempotent ==
    [][\A i \in Ids, env \in StartEnvs :
        (/\ last'.op = "start" /\ last'.id = i
         /\ start_edc_service(i, env)
         /\ i \in DOMAIN connectors
         /\ DbName(connectors[i].type, i) \in databases
         /\ last'.failedAt \notin {"generate", "network"}
         /\ env.pg) =>
            /\ last'.dbLog \in {"exists", "FileNotFoundError"}
            /\ databases' = databases
            /\ env.initsql => last'.failedAt \in {"none", "compose"} /\ last'.dbLog = "exists"]_vars

C6_Witness ==
    /\ last.op = "start" /\ last.dbLog = "exists" /\ last.failedAt = "none"
    /\ DbName(connectors[last.id].type, last.id) \in databases

----------------------------------------------------------------------------
(* Claims about the registry's port check *)

\* C4: no two registered managed instances share a port value.
C4_NoSharedPort ==
    \A i, j \in DOMAIN connectors :
        (i # j /\ connectors[i].mode = "managed" /\ connectors[j].mode = "managed")
            => PortValues(connectors[i].ports) \cap PortValues(connectors[j].ports) = {}

\* C5: creating a candidate with a port set fails with the port-conflict error
\* (400) and inserts nothing whenever one of its port values is a port value of
\* a registered instance, in whatever field, or is listening on the host.
C5_CreateConflict ==
    [][\A c \in RegistryCandidates, l \in Listenings :
        (/\ create_connector(c, l)
         /\ c.ports # None
         /\ \/ \E i \in DOMAIN connectors :
                  PortValues(connectors[i].ports) \cap PortValues(c.ports) # {}
            \/ PortValues(c.ports) \cap l # {}) =>
            last'.status = 400 /\ connectors' = connectors]_vars

----------------------------------------------------------------------------
(* The negotiation and transfer orchestrator *)

\* non-2xx statuses an upstream connector is taken to answer with
ErrorStatuses == {404, 503}

\* the request got no answer at all (httpx.ConnectError)
Unreachable == [status |-> 0, body |-> "no-answer"]

\* what the consumer's management API can answer to a request: an error, no
\* answer, or 200 with the body the request asks for; the data address is
\* answered with 200 only once it has been produced
UpstreamAnswers(op) ==
    {[status |-> st, body |-> "upstream-error-body"] : st \in ErrorStatuses}
        \cup {Unreachable}
        \cup CASE op = "catalog_request" -> {[status |-> 200, body |-> "catalog"]}
               [] op = "negotiate_contract" ->
                    {[status |-> 200, body |-> "negotiation-id"]}
               [] op = "contract_agreement" ->
                    {[status |-> 200, body |-> upstream.negotiation]}
               [] op \in {"start_transfer", "start_transfer_pull"} ->
                    IF upstream.negotiation = "FINALIZED"
                    THEN {[status |-> 200, body |-> "transfer-process-id"]}
                    ELSE {}
               [] op = "check_transfer" ->
                    {[status |-> 200, body |-> upstream.transfer]}
               [] op = "check_data_pull" ->
                    IF upstream.address
                    THEN {[status |-> 200, body |-> "endpoint-and-authorization"]}
                    ELSE {}

TypeError == [kind |-> "TypeError"]

\* http://edc-provider-{_id}:{protocol_port}/protocol
ContainerDnsAddress(provider, id) ==
    IF provider.ports = None
    THEN TypeError
    ELSE [kind |-> "dns", id |-> id, port |-> provider.ports["protocol"]]

\* provider['endpoints_url']['protocol']
ExternalProtocolEndpoint(provider) ==
    IF provider.endpoints_url = None
    THEN TypeError
    ELSE [kind |-> "url", url |-> provider.endpoints_url.protocol]

\* get_base_url(consumer, path), or endpoints_url['management'] + path
ManagementUrl(consumer) ==
    IF consumer.mode = "managed"
    THEN IF consumer.ports = None
         THEN TypeError
         ELSE [kind |-> "localhost", port |-> consumer.ports["management"]]
    ELSE IF consumer.endpoints_url = None
         THEN TypeError
         ELSE [kind |-> "url", url |-> consumer.endpoints_url.management]

\* protocol_url of catalog_request_curl: chosen by the provider's mode
CatalogProtocolUrl(consumer, provider, id) ==
    IF provider.mode = "managed"
    THEN ContainerDnsAddress(provider, id)
    ELSE ExternalProtocolEndpoint(provider)

\* protocol_url of negotiate_contract_curl, start_transfer_curl and
\* start_transfer_curl_pull: chosen by the consumer's mode
NegotiateProtocolUrl(consumer, provider, id) ==
    IF consumer.mode = "managed"
    THEN ContainerDnsAddress(provider, id)
    ELSE ExternalProtocolEndpoint(provider)

\* a service function's result: the exception it raised (or "none"), its
\* status and detail (or the body it returned), the outbound calls it made,
\* the upstream's status, the counterPartyAddress it sent
Raised(exc, status, body) ==
    [exc |-> exc, status |-> status, body |-> body, calls |-> 0, answered |-> 0,
     address |-> NoAddress]

\* mutant: a request answered with a non-2xx status is sent a second time
SendRequest_Retry(consumer, address, answer) ==
    IF ManagementUrl(consumer) = TypeError \/ address = TypeError
    THEN Raised("TypeError", 0, <<"'NoneType' object is not subscriptable">>)
    ELSE IF consumer.api_key = ""
    THEN Raised("HTTPException", 500, <<"Connector API key not configured">>)
    ELSE IF answer = Unreachable
    THEN [exc |-> "ConnectError", status |-> 0, body |-> <<"connection failed">>,
          calls |-> 1, answered |-> 0, address |-> address]
    ELSE IF answer.status = 200
    THEN [exc |-> "none", status |-> 200, body |-> <<answer.body>>,
          calls |-> 1, answered |-> 200, address |-> address]
    ELSE [exc |-> "HTTPException", status |-> answer.status,
          body |-> <<"EDC error: ", answer.body>>,
          calls |-> 2, answered |-> answer.status, address |-> address]

\* the part every *_curl function shares: build the URLs, test the API key,
\* send one request, raise_for_status, return response.json()
SendRequest(consumer, address, answer) ==
    IF ManagementUrl(consumer) = TypeError \/ address = TypeError
    THEN Raised("TypeError", 0, <<"'NoneType' object is not subscriptable">>)
    ELSE IF consumer.api_key = ""
    THEN Raised("HTTPException", 500, <<"Connector API key not configured">>)
    ELSE IF answer = Unreachable
    THEN [exc |-> "ConnectError", status |-> 0, body |-> <<"connection failed">>,
          calls |-> 1, answered |-> 0, address |-> address]
    ELSE IF answer.status = 200
    THEN [exc |-> "none", status |-> 200, body |-> <<answer.body>>,
          calls |-> 1, answered |-> 200, address |-> address]
    ELSE [exc |-> "HTTPException", status |-> answer.status,
          body |-> <<"EDC error: ", answer.body>>,
          calls |-> 1, answered |-> answer.status, address |-> address]

\* routes whose handler has `except Exception` after `except ValueError`
CatchAllRoutes ==
    {"catalog_request", "negotiate_contract", "contract_agreement",
     "start_transfer", "check_transfer", "start_transfer_pull"}

\* str(e) of the exception a handler caught
StrOf(r) ==
    IF r.exc = "HTTPException" THEN <<"<status_code>: ">> \o r.body ELSE r.body

\* mutant: check_data_pull with the `except Exception` clause of the others
RouteResponse_CatchAll(op, r) ==
    IF r.exc = "none"
    THEN [status |-> 200, body |-> r.body]
    ELSE IF r.exc = "ValueError"
    THEN [status |-> 404, body |-> r.body]
    ELSE [status |-> 500, body |-> <<"Failed: ">> \o StrOf(r)]

\* the route handlers' try/except: ValueError becomes 404; the catch-all
\* routes turn every other exception, HTTPException included, into 500;
\* check_data_pull lets HTTPException through and anything else is the
\* framework's 500
RouteResponse(op, r) ==
    IF r.exc = "none"
    THEN [status |-> 200, body |-> r.body]
    ELSE IF r.exc = "ValueError"
    THEN [status |-> 404, body |-> r.body]
    ELSE IF op \in CatchAllRoutes
    THEN [status |-> 500, body |-> <<"Failed: ">> \o StrOf(r)]
    ELSE IF r.exc = "HTTPException"
    THEN [status |-> r.status, body |-> r.body]
    ELSE [status |-> 500, body |-> <<"Internal Server Error">>]

\* what the caller of a client route sees
Respond(op, consumer, r) ==
    last' = [NoLast EXCEPT !.op = op, !.id = consumer, !.err = r.exc,
                           !.status = RouteResponse(op, r).status,
                           !.body = RouteResponse(op, r).body,
                           !.calls = r.calls, !.answered = r.answered,
                           !.address = r.address]

\* the upstream acted on the request
Accepted(r) == r.calls = 1 /\ r.answered = 200

ClientFrame ==
    UNCHANGED <<connectors, nextId, starts, stops, listing, creates, tables, runtime,
                containers, networkExists, databases>>

MaxTransfers == 1
Flows == {"push", "pull"}

\* mutant: a status check that reads COMPLETED stores the record itself
TransfersAfter_OnCompleted(op, r, record) ==
    IF op = "new_transfer" /\ r.exc = "none"
    THEN Append(transfers, record)
    ELSE IF op = "check_transfer" /\ r.body = <<"COMPLETED">>
    THEN Append(transfers, [consumer |-> 0, provider |-> 0, transfer_flow |-> "push"])
    ELSE transfers

\* db["transfers"] after a request: insert_one is called by
\* create_transfer_service and by nothing else
TransfersAfter(op, r, record) ==
    IF op = "new_transfer" /\ r.exc = "none"
    THEN Append(transfers, record)
    ELSE transfers

Registered(ids) == \A i \in ids : i \in DOMAIN connectors

NotFound == Raised("ValueError", 0, <<"Consumer or provider connector not found">>)

catalog_request_service(consumer_id, provider_id, answer) ==
    IF ~Registered({consumer_id, provider_id})
    THEN NotFound
    ELSE SendRequest(connectors[consumer_id],
                     CatalogProtocolUrl(connectors[consumer_id],
                                        connectors[provider_id], provider_id),
                     answer)

\* negotiate_contract_service, start_transfer_service, start_transfer_service_pull
negotiate_contract_service(consumer_id, provider_id, answer) ==
    IF ~Registered({consumer_id, provider_id})
    THEN NotFound
    ELSE SendRequest(connectors[consumer_id],
                     NegotiateProtocolUrl(connectors[consumer_id],
                                          connectors[provider_id], provider_id),
                     answer)

\* get_contract_agreement_service, check_transfer_service,
\* check_transfer_data_pull_service: a GET on the consumer's management API
check_transfer_service(consumer_id, answer) ==
    IF ~Registered({consumer_id})
    THEN NotFound
    ELSE SendRequest(connectors[consumer_id], NoAddress, answer)

\* mutant: the record inserted without the two find_one lookups
create_transfer_service_Unchecked(consumer_id, provider_id) ==
    Raised("none", 201, <<"inserted_id">>)

\* create_transfer_service: both connectors looked up, then insert_one
create_transfer_service(consumer_id, provider_id) ==
    IF ~Registered({consumer_id})
    THEN Raised("HTTPException", 404, <<"Consumer not found">>)
    ELSE IF ~Registered({provider_id})
    THEN Raised("HTTPException", 404, <<"Provider not found">>)
    ELSE Raised("none", 201, <<"inserted_id">>)

\* POST /transfers/catalog_request
catalog_request(consumer, provider, answer) ==
    LET r == catalog_request_service(consumer, provider, answer) IN
    /\ Respond("catalog_request", consumer, r)
    /\ transfers' = TransfersAfter("catalog_request", r, None)
    /\ UNCHANGED upstream
    /\ ClientFrame

\* POST /transfers/negotiate_contract
negotiate_contract(consumer, provider, answer) ==
    LET r == negotiate_contract_service(consumer, provider, answer) IN
    /\ Respond("negotiate_contract", consumer, r)
    /\ transfers' = TransfersAfter("negotiate_contract", r, None)
    /\ upstream' = IF Accepted(r)
                   THEN [UpstreamInit EXCEPT !.negotiation = "REQUESTED"]
                   ELSE upstream
    /\ ClientFrame

\* POST /transfers/contract_agreement
contract_agreement(consumer, answer) ==
    LET r == check_transfer_service(consumer, answer) IN
    /\ Respond("contract_agreement", consumer, r)
    /\ transfers' = TransfersAfter("contract_agreement", r, None)
    /\ UNCHANGED upstream
    /\ ClientFrame

\* POST /transfers/start_transfer
start_transfer(consumer, provider, answer) ==
    LET r == negotiate_contract_service(consumer, provider, answer) IN
    /\ Respond("start_transfer", consumer, r)
    /\ transfers' = TransfersAfter("start_transfer", r, None)
    /\ upstream' = IF Accepted(r)
                   THEN [upstream EXCEPT !.transfer = "STARTED", !.flow = "push",
                                         !.address = FALSE]
                   ELSE upstream
    /\ ClientFrame

\* POST /transfers/start_transfer_pull
start_transfer_pull(consumer, provider, answer) ==
    LET r == negotiate_contract_service(consumer, provider, answer) IN
    /\ Respond("start_transfer_pull", consumer, r)
    /\ transfers' = TransfersAfter("start_transfer_pull", r, None)
    /\ upstream' = IF Accepted(r)
                   THEN [upstream EXCEPT !.transfer = "STARTED", !.flow = "pull",
                                         !.address = FALSE]
                   ELSE upstream
    /\ ClientFrame

\* POST /transfers/check_transfer
check_transfer(consumer, answer) ==
    LET r == check_transfer_service(consumer, answer) IN
    /\ Respond("check_transfer", consumer, r)
    /\ transfers' = TransfersAfter("check_transfer", r, None)
    /\ UNCHANGED upstream
    /\ ClientFrame

\* POST /transfers/check_data_pull
check_data_pull(consumer, answer) ==
    LET r == check_transfer_service(consumer, answer) IN
    /\ Respond("check_data_pull", consumer, r)
    /\ transfers' = TransfersAfter("check_data_pull", r, None)
    /\ UNCHANGED upstream
    /\ ClientFrame

\* POST /transfers: no try/except, the service's HTTPException is the response
new_transfer(consumer, provider, transfer_flow) ==
    LET r == create_transfer_service(consumer, provider) IN
    /\ last' = [NoLast EXCEPT !.op = "new_transfer", !.id = consumer,
                              !.err = r.exc, !.status = r.status, !.body = r.body]
    /\ transfers' = TransfersAfter("new_transfer", r,
                                   [consumer |-> consumer, provider |-> provider,
                                    transfer_flow |-> transfer_flow])
    /\ UNCHANGED upstream
    /\ ClientFrame

\* the connector runtimes move a negotiation and a transfer on by themselves
NegotiationFinalizes ==
    /\ upstream.negotiation = "REQUESTED"
    /\ upstream' = [upstream EXCEPT !.negotiation = "FINALIZED"]
    /\ UNCHANGED <<connectors, nextId, starts, stops, listing, creates, tables,
                   runtime, containers, networkExists, databases, transfers, last>>

\* the provider produces the data address of a pull transfer
AddressProduced ==
    /\ upstream.transfer = "STARTED" /\ upstream.flow = "pull" /\ ~upstream.address
    /\ upstream' = [upstream EXCEPT !.address = TRUE]
    /\ UNCHANGED <<connectors, nextId, starts, stops, listing, creates, tables,
                   runtime, containers, networkExists, databases, transfers, last>>

TransferCompletes ==
    /\ upstream.transfer = "STARTED"
    /\ upstream.flow = "pull" => upstream.address
    /\ upstream' = [upstream EXCEPT !.transfer = "COMPLETED"]
    /\ UNCHANGED <<connectors, nextId, starts, stops, listing, creates, tables,
                   runtime, containers, networkExists, databases, transfers, last>>

\* the external endpoints of a remote connector
Endpoints(id) == [management |-> <<"management", id>>, protocol |-> <<"protocol", id>>]

\* connectors as POST /connectors accepts them: a managed one has its ports
\* and may carry endpoints as well, a remote one has its endpoints
TransferCandidates ==
    LET type == IF nextId = 1 THEN "consumer" ELSE "provider" IN
    {Document(type, "managed", "stopped", PortConfig(nextId - 1, 0), e, k) :
        e \in {Endpoints(nextId), None}, k \in {"secret", ""}}
    \cup {Document(type, "remote", "stopped", None, Endpoints(nextId), k) :
            k \in {"secret", ""}}

NextTransfers ==
    \/ nextId <= MaxConnectors /\ \E c \in TransferCandidates : create_connector(c, {})
    \/ \E c, p \in Ids : \E a \in UpstreamAnswers("catalog_request") :
            catalog_request(c, p, a)
    \/ \E c, p \in Ids : \E a \in UpstreamAnswers("negotiate_contract") :
            negotiate_contract(c, p, a)
    \/ \E c \in Ids : \E a \in UpstreamAnswers("contract_agreement") :
            contract_agreement(c, a)
    \/ \E c, p \in Ids : \E a \in UpstreamAnswers("start_transfer") :
            start_transfer(c, p, a)
    \/ \E c, p \in Ids : \E a \in UpstreamAnswers("start_transfer_pull") :
            start_transfer_pull(c, p, a)
    \/ \E c \in Ids : \E a \in UpstreamAnswers("check_transfer") :
            check_transfer(c, a)
    \/ \E c \in Ids : \E a \in UpstreamAnswers("check_data_pull") :
            check_data_pull(c, a)
    \/ Len(transfers) < MaxTransfers
        /\ \E c, p \in Ids, f \in Flows : new_transfer(c, p, f)
    \/ NegotiationFinalizes
    \/ AddressProduced
    \/ TransferCompletes

SpecTransfers == Init /\ [][NextTransfers]_vars

----------------------------------------------------------------------------
(* Properties of the orchestrator *)

ClientOps ==
    {"catalog_request", "negotiate_contract", "contract_agreement", "start_transfer",
     "start_transfer_pull", "check_transfer", "check_data_pull"}

\* C7: a client request whose one outbound call was answered with a non-2xx
\* status is answered to the API caller with that same status, and with a
\* body that carries the upstream's body.
C7_UpstreamStatusSurfaced ==
    (last.op \in ClientOps /\ last.calls = 1 /\ last.answered \in ErrorStatuses)
        => /\ last.status = last.answered
           /\ last.body # <<>>
           /\ last.body[Len(last.body)] = "upstream-error-body"

\* the address requestCatalog sends for a provider
ProviderOwnAddress(p) == CatalogProtocolUrl(None, connectors[p], p)

\* C8: negotiate_contract, start_transfer and start_transfer_pull, called for a
\* registered consumer that has a management URL and an API key and for a
\* registered provider whose record holds the address of its own mode, send
\* one request whose counterPartyAddress is the address catalog_request builds
\* for that provider.
C8_CounterPartyFromProvider ==
    [][\A c, p \in Ids :
         \A a \in [status : {200} \cup ErrorStatuses,
                   body : {"upstream-error-body", "negotiation-id",
                           "transfer-process-id"}] :
            ( /\ \/ negotiate_contract(c, p, a)
                 \/ start_transfer(c, p, a)
                 \/ start_transfer_pull(c, p, a)
              /\ Registered({c, p})
              /\ connectors[c].api_key # ""
              /\ ManagementUrl(connectors[c]) # TypeError
              /\ ProviderOwnAddress(p) # TypeError )
            => /\ last'.calls = 1
               /\ last'.address = ProviderOwnAddress(p)]_vars

\* C9: check_data_pull for a registered consumer with an API key, when the
\* upstream answered its request, made that request once; answered before the data address exists, the
\* caller gets the upstream's error status and body (address not ready) and
\* nothing is retried; answered 200 once the address exists, the caller gets
\* 200 and the upstream's endpoint and authorization.
C9_PullAddress ==
    [][( /\ last' # last
         /\ last'.op = "check_data_pull"
         /\ last'.err \in {"none", "HTTPException"}
         /\ Registered({last'.id})
         /\ connectors[last'.id].api_key # "" )
        => /\ last'.calls = 1
           /\ upstream' = upstream
           /\ IF ~upstream.address
              THEN /\ last'.status = last'.answered
                   /\ last'.status \in ErrorStatuses
                   /\ last'.body = <<"EDC error: ", "upstream-error-body">>
              ELSE last'.answered = 200
                     => /\ last'.status = 200
                        /\ last'.body = <<"endpoint-and-authorization">>]_vars

\* a pull address was asked for before the provider produced it, and refused
C9_Witness ==
    /\ last.op = "check_data_pull"
    /\ last.calls = 1
    /\ last.status \in ErrorStatuses
    /\ upstream.flow = "pull" /\ upstream.transfer = "STARTED" /\ ~upstream.address

\* C10: the stored transfers change only in a new_transfer request, which
\* appends one record; every other request leaves them as they were.
C10_OnlyNewTransferWrites ==
    [][transfers' # transfers
        => /\ last'.op = "new_transfer"
           /\ last'.status = 201
           /\ Len(transfers') = Len(transfers) + 1
           /\ \A i \in 1..Len(transfers) : transfers'[i] = transfers[i]]_vars

\* a status check read COMPLETED from the upstream and nothing was stored
C10_Witness ==
    /\ last.op = "check_transfer"
    /\ last.status = 200
    /\ last.body = <<"COMPLETED">>
    /\ transfers = <<>>

----------------------------------------------------------------------------
(* Failure paths of the provisioner *)

\* C11: a start whose keystore generation fails (keytool exits non-zero)
\* raises and leaves the runtime directories as they were before the attempt:
\* nothing the attempt wrote remains where a later start or stop finds it.
C11_KeystoreFailureLeavesNothing ==
    [][\A i \in Ids, env \in StartEnvs :
        (/\ last'.op = "start" /\ last'.id = i
         /\ start_edc_service(i, env)
         /\ i \in DOMAIN connectors
         /\ connectors[i].ports # None
         /\ ~env.keytool) =>
            /\ last'.err = "RuntimeError"
            /\ runtime' = runtime]_vars

\* C12: a stop whose teardown (`docker compose down` in runtime/<id>) did not
\* succeed fails, and leaves the persisted state of every instance as it was.
C12_StopAfterTeardownSucceeded ==
    [][\A i \in Ids, down \in DownOutcomes :
        (/\ stop_edc_service(i, down)
         /\ i \in DOMAIN runtime
         /\ down # "ok") =>
            /\ last'.err # "ok"
            /\ connectors' = connectors]_vars

\* C13: a stop on a registered instance for which no start has succeeded fails
\* with the not-provisioned error (ValueError, 404) and persists nothing.  A
\* start that succeeds has created the database edc_{type}_{id}, and nothing
\* here drops a database or reuses an id: while that database is absent, no
\* start of the instance has succeeded.
C13_StopBeforeFirstStart ==
    [][\A i \in Ids, down \in DownOutcomes :
        (/\ stop_edc_service(i, down)
         /\ i \in DOMAIN connectors
         /\ DbName(connectors[i].type, i) \notin databases) =>
            /\ last'.err = "ValueError" /\ last'.status = 404
            /\ connectors' = connectors]_vars

\* C14: in a start whose artifact generation went through, the network step
\* creates the network exactly when it is absent and leaves an existing one
\* alone; when the network cannot be created (the engine does not answer) the
\* start raises at that step with no database created, no container launched
\* and no state persisted.
C14_NetworkEnsure ==
    [][\A i \in Ids, env \in StartEnvs :
        (/\ last'.op = "start" /\ last'.id = i
         /\ start_edc_service(i, env)
         /\ i \in DOMAIN connectors
         /\ last'.failedAt # "generate") =>
            LET net == _create_docker_network_if_not_exists(networkExists, env.docker)
            IN  /\ net.created <=> (env.docker /\ ~networkExists)
                /\ env.docker => networkExists'
                /\ networkExists => networkExists'
                /\ ~env.docker =>
                      /\ last'.failedAt = "network" /\ last'.err = "RuntimeError"
                      /\ networkExists' = networkExists
                      /\ databases' = databases
                      /\ containers' = containers
                      /\ connectors' = connectors]_vars

\* a start stopped at the network step: artifacts written, no network, no
\* database, no container, state still `stopped`
C14_Witness ==
    /\ last.op = "start" /\ last.failedAt = "network"
    /\ ~networkExists
    /\ last.id \in DOMAIN runtime /\ runtime[last.id] = Artifacts
    /\ databases = {} /\ containers = {}
    /\ connectors[last.id].state = "stopped"

----------------------------------------------------------------------------
(* The address set of a registered instance *)

\* C15: every registered instance has the address set of its mode: a managed
\* one a port set and an API key, a remote one an endpoint set.
C15_AuthoritativeAddress ==
    \A i \in DOMAIN connectors :
        IF connectors[i].mode = "managed"
        THEN connectors[i].ports # None /\ connectors[i].api_key # ""
        ELSE connectors[i].endpoints_url # None

----------------------------------------------------------------------------
(* The orchestrator never polls *)

\* C16: a client request makes at most one outbound call, and exactly one when
\* it got as far as the upstream; negotiate_contract returns the upstream's
\* answer while the negotiation is still REQUESTED, and contract_agreement and
\* check_transfer return the state the upstream reported at that one read,
\* whatever it is, and leave the upstream as it was.
C16_OneCallNoPolling ==
    [][(last' # last /\ last'.op \in ClientOps) =>
        /\ last'.calls <= 1
        /\ (last'.answered # 0 \/ last'.err \in {"none", "ConnectError"})
              => last'.calls = 1
        /\ (last'.op = "negotiate_contract" /\ last'.err = "none")
              => /\ last'.body = <<"negotiation-id">>
                 /\ upstream'.negotiation = "REQUESTED"
        /\ (last'.op = "contract_agreement" /\ last'.err = "none")
              => /\ last'.body = <<upstream.negotiation>>
                 /\ upstream' = upstream
        /\ (last'.op = "check_transfer" /\ last'.err = "none")
              => /\ last'.body = <<upstream.transfer>>
                 /\ upstream' = upstream]_vars

\* the agreement was read once while the negotiation was not finalized, and
\* that state was returned
C16_Witness ==
    /\ last.op = "contract_agreement" /\ last.err = "none"
    /\ last.calls = 1
    /\ last.body = <<"REQUESTED">>
    /\ upstream.negotiation = "REQUESTED"

----------------------------------------------------------------------------
(* Decommissioning *)

\* C17: after a delete that succeeded neither the instance's record nor its
\* runtime directory exists; a delete that failed left the record store and
\* the runtime directories as they were.
C17_DeleteAllOrNothing ==
    [][\A i \in Ids, dbOk \in BOOLEAN :
        delete_connector(i, dbOk) =>
            IF last'.err = "ok"
            THEN i \notin DOMAIN connectors' /\ i \notin DOMAIN runtime'
            ELSE connectors' = connectors /\ runtime' = runtime]_vars

----------------------------------------------------------------------------
(* Transfer records beside the connector lifecycle *)

\* GET /transfers: every record, its consumer and provider replaced by the
\* connector documents, or by None when the connector is no longer registered
get_all_transfers ==
    /\ last' = [Outcome("get_all_transfers", 0, "ok", 200)
                  EXCEPT !.seen =
                    IF \E k \in 1..Len(transfers) :
                          ~Registered({transfers[k].consumer, transfers[k].provider})
                    THEN "dangling"
                    ELSE "resolved"]
    /\ UNCHANGED <<connectors, nextId, starts, stops, listing, creates, tables,
                   runtime, containers, networkExists, databases, transfers, upstream>>

\* the registry and the provisioner, with transfers recorded and listed
NextRecords ==
    \/ Next
    \/ Len(transfers) < MaxTransfers
        /\ \E c, p \in Ids, f \in Flows : new_transfer(c, p, f)
    \/ get_all_transfers

SpecRecords == Init /\ [][NextRecords]_vars

\* C18: no request removes or alters a stored transfer record; deleting,
\* stopping, starting or reconciling the connectors it names leaves it stored.
C18_RecordsKept ==
    [][\A k \in 1..Len(transfers) :
        /\ k <= Len(transfers')
        /\ transfers'[k] = transfers[k]]_vars

\* a connector was deleted and the record naming it is still stored
C18_Witness ==
    /\ last.op = "delete" /\ last.err = "ok"
    /\ last.id \notin DOMAIN connectors
    /\ Len(transfers) >= 1
    /\ transfers[1].consumer = last.id

----------------------------------------------------------------------------
(* The order of the steps of a start *)

\* C19: within one start the steps run in the order artifact generation,
\* network, database, container launch, each only after the one before it
\* succeeded: a start that failed at a step has the effects of the steps
\* before it and none of the steps after it, a container is launched only
\* when no step failed, and `running` is persisted only after the launch.
C19_StepOrder ==
    [][\A i \in Ids, env \in StartEnvs :
        (/\ last'.op = "start" /\ last'.id = i
         /\ start_edc_service(i, env)
         /\ i \in DOMAIN connectors) =>
            LET container == ContainerName(connectors[i].type, i)
                db_name == DbName(connectors[i].type, i)
                generated == i \in DOMAIN runtime' /\ runtime'[i] = Artifacts
            IN  /\ last'.failedAt = "generate" =>
                      /\ networkExists' = networkExists
                      /\ databases' = databases
                      /\ containers' = containers
                /\ last'.failedAt = "network" =>
                      /\ generated
                      /\ databases' = databases
                      /\ containers' = containers
                /\ last'.failedAt = "database" =>
                      /\ generated /\ networkExists'
                      /\ containers' = containers
                /\ last'.failedAt = "compose" =>
                      /\ generated /\ networkExists'
                      /\ db_name \in databases'
                      /\ containers' = containers
                /\ last'.failedAt = "none" =>
                      /\ generated /\ networkExists'
                      /\ db_name \in databases'
                      /\ containers' = containers \cup {container}
                      /\ connectors'[i].state = "running"
                /\ last'.failedAt # "none" => connectors' = connectors]_vars

\* a start that got as far as the launch and failed there: the database is
\* there, the container is not, the state is `stopped`
C19_Witness ==
    /\ last.op = "start" /\ last.failedAt = "compose"
    /\ DbName(connectors[last.id].type, last.id) \in databases
    /\ ContainerName(connectors[last.id].type, last.id) \notin containers
    /\ connectors[last.id].state = "stopped"

----------------------------------------------------------------------------
(* Starts side by side: start_edc_service one external call at a time *)

\* Two workers serving POST /connectors/{id}/start run the calls of
\* start_edc_service each at their own pace; nothing in the sources takes a
\* lock.  starts[id] is the position of the start of instance id, and `listed`
\* what its `docker network ls` saw.  Every external answers here (keytool,
\* the engine, the relational server): a start run alone goes through.
StartPositions ==
    {"generate", "network_ls", "network_create", "database", "compose", "update",
     "done", "failed"}

UnderWay(id) == id \in DOMAIN starts /\ starts[id].pc \notin {"done", "failed"}

At(id, pc) == id \in DOMAIN starts /\ starts[id].pc = pc

Goto(id, pc, listed) ==
    [i \in DOMAIN starts \cup {id} |->
        IF i = id THEN [pc |-> pc, listed |-> listed] ELSE starts[i]]

\* find_one: the request is taken up when the connector is registered
start_find_one(id) ==
    /\ ~UnderWay(id)
    /\ id \in DOMAIN connectors
    /\ starts' = Goto(id, "generate", FALSE)
    /\ UNCHANGED <<connectors, nextId, runtime, containers, networkExists,
                   databases, transfers, upstream, last, stops, listing, creates, tables>>

\* _generate_files(connector, base_path)
start_generate_files(id) ==
    /\ At(id, "generate")
    /\ LET gen == _generate_files(connectors[id], id \in DOMAIN runtime,
                                  IF id \in DOMAIN runtime THEN runtime[id] ELSE {},
                                  TRUE)
       IN  /\ runtime' = IF gen.dir
                         THEN [i \in DOMAIN runtime \cup {id} |->
                                  IF i = id THEN gen.files ELSE runtime[i]]
                         ELSE runtime
           /\ starts' = Goto(id, IF gen.ok THEN "network_ls" ELSE "failed", FALSE)
           /\ last' = IF gen.ok THEN last ELSE Outcome("start", id, "RuntimeError", 500)
    /\ UNCHANGED <<connectors, nextId, containers, networkExists, databases,
                   transfers, upstream, stops, listing, creates, tables>>

\* docker network ls --format {{.Name}}
start_network_ls(id) ==
    /\ At(id, "network_ls")
    /\ starts' = Goto(id, "network_create", networkExists)
    /\ UNCHANGED <<connectors, nextId, runtime, containers, networkExists,
                   databases, transfers, upstream, last, stops, listing, creates, tables>>

\* if network_name not in networks: docker network create (check=True), which
\* exits non-zero when a network of that name exists by now
start_network_create(id) ==
    /\ At(id, "network_create")
    /\ IF starts[id].listed
       THEN /\ starts' = Goto(id, "database", TRUE)
            /\ UNCHANGED <<networkExists, last>>
       ELSE IF networkExists
       THEN /\ starts' = Goto(id, "failed", FALSE)
            /\ last' = Outcome("start", id, "RuntimeError", 500)
            /\ UNCHANGED networkExists
       ELSE /\ networkExists' = TRUE
            /\ starts' = Goto(id, "database", FALSE)
            /\ UNCHANGED last
    /\ UNCHANGED <<connectors, nextId, runtime, containers, databases,
                   transfers, upstream, stops, listing, creates, tables>>

\* _run_docker_compose up to init.sql
start_database(id) ==
    /\ At(id, "database")
    /\ LET made == CreateDatabaseIfAbsent(databases, DbName(connectors[id].type, id))
       IN  /\ databases' = made.dbs
           /\ tables' = IF made.ok
                        THEN RunInitSql(tables, DbName(connectors[id].type, id), 0)
                        ELSE tables
           /\ starts' = Goto(id, IF made.ok THEN "compose" ELSE "failed", starts[id].listed)
           /\ last' = IF made.ok THEN last ELSE Outcome("start", id, "RuntimeError", 500)
    /\ UNCHANGED <<connectors, nextId, runtime, containers, networkExists,
                   transfers, upstream, stops, listing, creates>>

\* docker compose up -d in runtime/<id>
start_compose_up(id) ==
    /\ At(id, "compose")
    /\ containers' = ComposeUp(containers, ContainerName(connectors[id].type, id))
    /\ starts' = Goto(id, "update", starts[id].listed)
    /\ UNCHANGED <<connectors, nextId, runtime, networkExists, databases,
                   transfers, upstream, last, stops, listing, creates, tables>>

\* update_one({"$set": {"state": "running"}})
start_update_one(id) ==
    /\ At(id, "update")
    /\ connectors' = [connectors EXCEPT ![id] = StateAfterStart(@, "none")]
    /\ starts' = Goto(id, "done", starts[id].listed)
    /\ last' = Outcome("start", id, "ok", 200)
    /\ UNCHANGED <<nextId, runtime, containers, networkExists, databases,
                   transfers, upstream, stops, listing, creates, tables>>

\* the instances started side by side: managed, with their own port block
ConcurrentCandidates ==
    {Document(t, "managed", "stopped", PortConfig(nextId - 1, 0), None, "secret") :
        t \in Types}

NextConcurrent ==
    \/ /\ nextId <= MaxConnectors
       /\ \E c \in ConcurrentCandidates : create_connector(c, {})
    \/ \E i \in Ids : start_find_one(i)
    \/ \E i \in Ids : start_generate_files(i)
    \/ \E i \in Ids : start_network_ls(i)
    \/ \E i \in Ids : start_network_create(i)
    \/ \E i \in Ids : start_database(i)
    \/ \E i \in Ids : start_compose_up(i)
    \/ \E i \in Ids : start_update_one(i)

SpecConcurrent == Init /\ [][NextConcurrent]_vars

\* C20: of starts of different instances run side by side, each of which
\* goes through when run alone, none fails, however their steps interleave
\* and whether or not the network existed before.
C20_ConcurrentStartsSucceed ==
    \A i \in DOMAIN starts : starts[i].pc # "failed"

----------------------------------------------------------------------------
(* A stop side by side with a start of the same instance *)

\* stop_edc_service runs base_path.exists() and `docker compose down` in one
\* go and then awaits update_one; start_edc_service awaits its own update_one
\* after `docker compose up -d`.  Neither looks at the other: the two
\* update_one calls reach the record store in either order.  stops[id] is
\* the position of the stop of instance id.  The engine answers here.
StopUnderWay(id) == id \in DOMAIN stops /\ stops[id] = "update"

StopAt(id, pc) == [i \in DOMAIN stops \cup {id} |-> IF i = id THEN pc ELSE stops[i]]

\* mutant: the stop waits until no start of the instance is under way
stop_compose_down_Exclusive(id) ==
    /\ ~UnderWay(id)
    /\ ~StopUnderWay(id)
    /\ id \in DOMAIN runtime
    /\ containers' = _run_docker_compose_down(runtime[id], containers, id, "ok").live
    /\ stops' = StopAt(id, "update")
    /\ UNCHANGED <<connectors, nextId, runtime, networkExists, databases, transfers,
                   upstream, last, starts, listing, creates, tables>>

\* base_path.exists(), then _run_docker_compose_down(base_path)
stop_compose_down(id) ==
    /\ ~StopUnderWay(id)
    /\ id \in DOMAIN runtime
    /\ containers' = _run_docker_compose_down(runtime[id], containers, id, "ok").live
    /\ stops' = StopAt(id, "update")
    /\ UNCHANGED <<connectors, nextId, runtime, networkExists, databases, transfers,
                   upstream, last, starts, listing, creates, tables>>

\* update_one({"$set": {"state": "stopped"}}); matching no document is no error
stop_update_one(id) ==
    /\ StopUnderWay(id)
    /\ connectors' = [i \in DOMAIN connectors |->
                         IF i = id THEN StateAfterStop(connectors[i], FALSE)
                         ELSE connectors[i]]
    /\ stops' = StopAt(id, "done")
    /\ last' = Outcome("stop", id, "ok", 200)
    /\ UNCHANGED <<nextId, runtime, containers, networkExists, databases, transfers,
                   upstream, starts, listing, creates, tables>>

NextStartStop ==
    \/ /\ nextId <= MaxInstances
       /\ \E c \in ConcurrentCandidates : create_connector(c, {})
    \/ \E i \in Ids : start_find_one(i)
    \/ \E i \in Ids : start_generate_files(i)
    \/ \E i \in Ids : start_network_ls(i)
    \/ \E i \in Ids : start_network_create(i)
    \/ \E i \in Ids : start_database(i)
    \/ \E i \in Ids : start_compose_up(i)
    \/ \E i \in Ids : start_update_one(i)
    \/ \E i \in Ids : stop_compose_down(i)
    \/ \E i \in Ids : stop_update_one(i)

SpecStartStop == Init /\ [][NextStartStop]_vars

\* C21: a start and a stop of the same instance do not exclude each other:
\* at every position of a start of an instance that has its runtime directory
\* a stop of that instance can tear the stack down, and a stop that tore it
\* down can persist `stopped` whatever the start has done since.
C21_StartStopNotExclusive ==
    \A i \in DOMAIN runtime :
        /\ ~StopUnderWay(i) => ENABLED stop_compose_down(i)
        /\ StopUnderWay(i) => ENABLED stop_update_one(i)

\* both returned successfully, `running` is persisted and no container runs
C21_Witness ==
    \E i \in DOMAIN connectors :
        /\ At(i, "done")
        /\ i \in DOMAIN stops /\ stops[i] = "done"
        /\ connectors[i].state = "running"
        /\ ContainerName(connectors[i].type, i) \notin containers

----------------------------------------------------------------------------
(* Registrations side by side: the port check and the insert apart *)

\* create_connector awaits check_ports_unique (find_one, then the socket
\* probes) and after it awaits insert_one; another POST /connectors is served
\* in between.  creates holds the bodies that passed the check and are not
\* inserted yet.
create_check(connector, listening) ==
    /\ connector \notin creates
    /\ LET err == check_ports_unique(connector, connectors, listening) IN
       IF err = "ok"
       THEN /\ creates' = creates \cup {connector}
            /\ UNCHANGED last
       ELSE /\ last' = Outcome("create", 0, err, 400)
            /\ UNCHANGED creates
    /\ UNCHANGED <<connectors, nextId, runtime, containers, networkExists, databases,
                   transfers, upstream, starts, stops, listing, tables>>

\* mutant: the insert refuses a body whose ports were stored in the meantime
create_insert_Rechecked(connector) ==
    /\ connector \in creates
    /\ creates' = creates \ {connector}
    /\ LET err == check_ports_unique(connector, connectors, {}) IN
       IF err = "ok"
       THEN /\ connectors' = [i \in DOMAIN connectors \cup {nextId} |->
                                 IF i = nextId THEN connector ELSE connectors[i]]
            /\ nextId' = nextId + 1
            /\ last' = Outcome("create", nextId, "ok", 201)
       ELSE /\ UNCHANGED <<connectors, nextId>>
            /\ last' = Outcome("create", 0, err, 400)
    /\ UNCHANGED <<runtime, containers, networkExists, databases, transfers, upstream,
                   starts, stops, listing, tables>>

\* insert_one(connector.dict())
create_insert(connector) ==
    /\ connector \in creates
    /\ creates' = creates \ {connector}
    /\ connectors' = [i \in DOMAIN connectors \cup {nextId} |->
                         IF i = nextId THEN connector ELSE connectors[i]]
    /\ nextId' = nextId + 1
    /\ last' = Outcome("create", nextId, "ok", 201)
    /\ UNCHANGED <<runtime, containers, networkExists, databases, transfers, upstream,
                   starts, stops, listing, tables>>

\* the bodies offered side by side: managed, every role and port set, while
\* no port of the host is taken
CreatesCandidates ==
    {Document(t, "managed", "stopped", p, None, "secret") :
        t \in Types, p \in PortConfigs}

NextCreates ==
    \/ /\ nextId + Cardinality(creates) <= MaxConnectors
       /\ \E c \in CreatesCandidates : create_check(c, {})
    \/ \E c \in creates : create_insert(c)

SpecCreates == Init /\ [][NextCreates]_vars

\* C22: nothing is held between the port check and the insert: a body that
\* passed the check is stored by its insert under a fresh id with 201,
\* whatever was stored since the check, ports it shares included.
C22_CheckThenInsert ==
    [][\A c \in creates :
          create_insert(c) =>
              /\ last'.op = "create" /\ last'.status = 201
              /\ connectors' = [i \in DOMAIN connectors \cup {nextId} |->
                                    IF i = nextId THEN c ELSE connectors[i]]]_vars

\* two registrations served side by side stored the same port in the same
\* field, which check_ports_unique refuses when they come one after the other
C22_Witness ==
    /\ creates = {}
    /\ \E i, j \in DOMAIN connectors :
          /\ i < j
          /\ connectors[i].ports # None /\ connectors[j].ports # None
          /\ PortQueryMatches(connectors[i], connectors[j].ports)

----------------------------------------------------------------------------
(* Who writes the persisted state *)

\* C23: the persisted state of an instance changes only in a start, a stop or
\* a listing, and an instance is registered as `stopped`.
C23_StateOnlyByLifecycle ==
    [][\A i \in DOMAIN connectors' :
          IF i \in DOMAIN connectors
          THEN connectors'[i].state # connectors[i].state
                   => last'.op \in {"start", "stop", "list"}
          ELSE connectors'[i].state = "stopped"]_vars

----------------------------------------------------------------------------
(* The wait for the relational server and the statements of init.sql *)

InitSqlEnvs == {StartEnv("none", 0, k) : k \in 0..MaxStatements}

NextInitSql ==
    \/ nextId <= MaxInstances /\ \E c \in Candidates : create_connector(c, {})
    \/ \E i \in Ids, env \in InitSqlEnvs : start_edc_service(i, env)
    \/ \E i \in Ids, down \in DownOutcomes : stop_edc_service(i, down)

SpecInitSql == Init /\ [][NextInitSql]_vars

\* C25: when the server rejects one statement of init.sql the start goes on
\* to the launch, and every other statement of the script, before and after
\* the rejected one, is committed in the instance's database.
C25_StatementsIndependent ==
    [][\A i \in Ids, env \in InitSqlEnvs :
        (/\ last'.op = "start" /\ last'.id = i
         /\ start_edc_service(i, env)
         /\ i \in DOMAIN connectors
         /\ env.sqlFails \in Statements
         /\ last'.failedAt \notin {"generate", "network"}) =>
            LET db == DbName(connectors[i].type, i) IN
            /\ last'.failedAt = "none"
            /\ db \in DOMAIN tables'
            /\ Statements \ {env.sqlFails} \subseteq tables'[db]]_vars

----------------------------------------------------------------------------
(* A listing side by side with a start *)

\* get_all_connectors awaits find().to_list(), runs `docker ps`, and then
\* awaits one update_connector per managed document of its snapshot; a start
\* is served in between.  listing.docs are the documents of the snapshot not
\* gone through yet, listing.active the names `docker ps` gave.
list_find ==
    /\ listing.pc \in {"idle", "done"}
    /\ listing' = [pc |-> "ps", docs |-> connectors, active |-> {}]
    /\ UNCHANGED <<connectors, nextId, runtime, containers, networkExists, databases,
                   transfers, upstream, last, starts, stops, creates, tables>>

\* subprocess.check_output(["docker", "ps", "--format", "{{.Names}}"])
list_docker_ps ==
    /\ listing.pc = "ps"
    /\ listing' = [listing EXCEPT !.pc = "update",
                                  !.active = ActiveContainers(containers, TRUE)]
    /\ UNCHANGED <<connectors, nextId, runtime, containers, networkExists, databases,
                   transfers, upstream, last, starts, stops, creates, tables>>

\* the document the for loop is at: the snapshot in insertion order
NextListed == CHOOSE i \in DOMAIN listing.docs : \A j \in DOMAIN listing.docs : i <= j

\* one turn of the for loop: the state decided from the snapshot and the
\* listing, then update_connector(c['_id'], {"state": c['state']})
list_update ==
    /\ listing.pc = "update"
    /\ DOMAIN listing.docs # {}
    /\ LET i == NextListed
           c == Reconcile(listing.docs[i], i, listing.active)
       IN  IF c.mode = "managed" /\ i \notin DOMAIN connectors
           THEN /\ listing' = NoListing
                /\ last' = Outcome("list", 0, "ValueError", 500)
                /\ UNCHANGED connectors
           ELSE /\ listing' = [listing EXCEPT !.docs = Without(listing.docs, i)]
                /\ connectors' = IF c.mode = "managed"
                                 THEN UpdateStore(connectors, i, [state |-> c.state])
                                 ELSE connectors
                /\ UNCHANGED last
    /\ UNCHANGED <<nextId, runtime, containers, networkExists, databases, transfers,
                   upstream, starts, stops, creates, tables>>

\* return connectors
list_return ==
    /\ listing.pc = "update"
    /\ DOMAIN listing.docs = {}
    /\ listing' = [NoListing EXCEPT !.pc = "done"]
    /\ last' = [Outcome("list", 0, "ok", 200) EXCEPT !.seen = "docker"]
    /\ UNCHANGED <<connectors, nextId, runtime, containers, networkExists, databases,
                   transfers, upstream, starts, stops, creates, tables>>

NextListing ==
    \/ /\ nextId <= MaxInstances
       /\ \E c \in ConcurrentCandidates : create_connector(c, {})
    \/ \E i \in Ids : start_find_one(i)
    \/ \E i \in Ids : start_generate_files(i)
    \/ \E i \in Ids : start_network_ls(i)
    \/ \E i \in Ids : start_network_create(i)
    \/ \E i \in Ids : start_database(i)
    \/ \E i \in Ids : start_compose_up(i)
    \/ \E i \in Ids : start_update_one(i)
    \/ list_find
    \/ list_docker_ps
    \/ list_update
    \/ list_return

SpecListing == Init /\ [][NextListing]_vars

\* C26: once a listing and a start of a managed instance both returned,
\* however they overlapped, the persisted state is `running` exactly when
\* the instance's container runs.
C26_ListingAgreesWithStart ==
    \A i \in DOMAIN connectors :
        (At(i, "done") /\ listing.pc = "done" /\ connectors[i].mode = "managed") =>
            (connectors[i].state = "running"
                <=> ContainerName(connectors[i].type, i) \in containers)

----------------------------------------------------------------------------
(* The listing without the container engine *)

\* C27: a listing whose `docker ps` raises still answers 200, and persists
\* every managed instance as `stopped`, whatever its state was and whether
\* or not its container runs; remote instances are left as they were.
C27_ListingWithoutEngine ==
    [][(last'.op = "list" /\ get_all_connectors(FALSE)) =>
        /\ last'.status = 200 /\ last'.err = "ok"
        /\ DOMAIN connectors' = DOMAIN connectors
        /\ \A i \in DOMAIN connectors :
              IF connectors[i].mode = "managed"
              THEN connectors'[i] = [connectors[i] EXCEPT !.state = "stopped"]
              ELSE connectors'[i] = connectors[i]]_vars

\* a started instance listed as `stopped` while its container runs
C27_Witness ==
    /\ last.op = "list" /\ last.seen = "nodocker" /\ last.status = 200
    /\ \E i \in DOMAIN connectors :
          /\ connectors[i].mode = "managed" /\ connectors[i].state = "stopped"
          /\ ContainerName(connectors[i].type, i) \in containers

----------------------------------------------------------------------------
(* Delete: what it asks for and what it leaves behind *)

\* C28: a delete of a registered instance that has no runtime directory fails
\* as not found (ValueError, 404) and leaves the record; a record goes only
\* in a delete of an instance that has the directory, and the directory of an
\* instance appears only in a start of that instance.
C28_DeleteNeedsDirectory ==
    [][/\ \A i \in Ids, dbOk \in BOOLEAN :
            (/\ last'.op = "delete" /\ last'.id = i
             /\ delete_connector(i, dbOk)
             /\ i \in DOMAIN connectors /\ i \notin DOMAIN runtime) =>
                /\ last'.err = "ValueError" /\ last'.status = 404
                /\ connectors' = connectors
                /\ runtime' = runtime
       /\ \A i \in DOMAIN connectors \ DOMAIN connectors' :
            last'.op = "delete" /\ last'.id = i /\ i \in DOMAIN runtime
       /\ \A i \in DOMAIN runtime' \ DOMAIN runtime :
            last'.op = "start" /\ last'.id = i]_vars

\* a registered instance that was never started refused
C28_Witness ==
    /\ last.op = "delete" /\ last.err = "ValueError" /\ last.status = 404
    /\ last.id \in DOMAIN connectors
    /\ last.id \notin DOMAIN runtime
    /\ DbName(connectors[last.id].type, last.id) \notin databases

\* C29: a delete leaves the containers alone: deleting an instance whose
\* container runs removes the record and the runtime directory and the
\* container runs on.
C29_DeleteLeavesContainer ==
    [][\A i \in Ids, dbOk \in BOOLEAN :
        (/\ last'.op = "delete" /\ last'.id = i
         /\ delete_connector(i, dbOk)) =>
            /\ containers' = containers
            /\ (i \in DOMAIN connectors /\ i \in DOMAIN runtime /\ dbOk) =>
                  /\ last'.status = 200
                  /\ i \notin DOMAIN connectors'
                  /\ i \notin DOMAIN runtime']_vars

\* a container runs whose instance has neither record nor directory
C29_Witness ==
    /\ last.op = "delete" /\ last.status = 200
    /\ last.id \notin DOMAIN connectors
    /\ last.id \notin DOMAIN runtime
    /\ \E c \in containers : c[2] = last.id

----------------------------------------------------------------------------
(* Transfer records and the connectors they name *)

\* C30: POST /transfers appends the record and answers 201 when both its
\* consumer and its provider are registered; when either is missing it
\* answers 404 and stores nothing.
C30_RecordNeedsBothConnectors ==
    [][\A c \in Ids, p \in Ids, f \in Flows :
        (/\ last'.op = "new_transfer" /\ last'.id = c
         /\ new_transfer(c, p, f)) =>
            IF c \in DOMAIN connectors /\ p \in DOMAIN connectors
            THEN /\ last'.status = 201
                 /\ transfers' = Append(transfers, [consumer |-> c, provider |-> p,
                                                    transfer_flow |-> f])
            ELSE /\ last'.status = 404 /\ last'.err = "HTTPException"
                 /\ transfers' = transfers]_vars

\* a record naming a registered consumer and a missing provider refused
C30_Witness ==
    /\ last.op = "new_transfer" /\ last.status = 404
    /\ last.body = <<"Provider not found">>
    /\ last.id \in DOMAIN connectors
    /\ transfers = <<>>

====
